---- MODULE Spec2Model ----
(***************************************************************************)
(* A model of the annotation-driven form renderer (renderer/render.js) and *)
(* of the 1040-specific native filler (fillForm).                          *)
(*                                                                         *)
(* JavaScript values are tagged records; strings are sequences of          *)
(* one-character strings so that String(), toUpperCase(), trim(), the      *)
(* digit-stripping regular expressions and parseFloat() are computed and   *)
(* not assumed. Numbers are integers.                                      *)
(***************************************************************************)
EXTENDS Integers, Sequences, FiniteSets, TLC

(***************************************************************************)
(* JavaScript values                                                       *)
(***************************************************************************)
Undef == [t |-> "undef"]
Null == [t |-> "null"]
NaN == [t |-> "nan"]
Bool(b) == [t |-> "bool", b |-> b]
Num(n) == [t |-> "num", n |-> n]
Str(s) == [t |-> "str", s |-> s]
Arr(a) == [t |-> "arr", a |-> a]
Obj(o) == [t |-> "obj", o |-> o]

EmptyStr == Str(<< >>)

\* value === null || value === undefined
IsNullish(v) == v = Null \/ v = Undef

\* a parameter declared with "= null": an omitted or undefined argument takes the default
DefaultNull(d) == IF d = Undef THEN Null ELSE d

Digits == <<"0", "1", "2", "3", "4", "5", "6", "7", "8", "9">>

IsDigit(c) == \E k \in 1..Len(Digits) : Digits[k] = c

DigitValue(c) == (CHOOSE k \in 1..Len(Digits) : Digits[k] = c) - 1

RECURSIVE NatToChars(_)
NatToChars(n) ==
  IF n < 10 THEN <<Digits[n + 1]>>
  ELSE NatToChars(n \div 10) \o <<Digits[(n % 10) + 1]>>

IntToChars(n) == IF n < 0 THEN <<"-">> \o NatToChars(0 - n) ELSE NatToChars(n)

RECURSIVE JoinComma(_)
RECURSIVE ToChars(_)
\* String(value): the characters of the JavaScript string conversion
ToChars(v) ==
  CASE v.t = "str" -> v.s
    [] v.t = "num" -> IntToChars(v.n)
    [] v.t = "bool" -> IF v.b THEN <<"t", "r", "u", "e">> ELSE <<"f", "a", "l", "s", "e">>
    [] v.t = "null" -> <<"n", "u", "l", "l">>
    [] v.t = "undef" -> <<"u", "n", "d", "e", "f", "i", "n", "e", "d">>
    [] v.t = "nan" -> <<"N", "a", "N">>
    [] v.t = "arr" -> JoinComma(v.a)
    [] v.t = "obj" -> <<"[", "o", "b", "j", "e", "c", "t", " ", "O", "b", "j", "e", "c", "t", "]">>

\* Array.prototype.join(","): null and undefined elements give the empty string
JoinComma(a) ==
  IF a = << >> THEN << >>
  ELSE LET h == IF IsNullish(Head(a)) THEN << >> ELSE ToChars(Head(a))
       IN IF Len(a) = 1 THEN h ELSE h \o <<",">> \o JoinComma(Tail(a))

UpperOf ==
  [a |-> "A", b |-> "B", c |-> "C", d |-> "D", e |-> "E", f |-> "F", g |-> "G",
   h |-> "H", i |-> "I", j |-> "J", k |-> "K", l |-> "L", m |-> "M", n |-> "N",
   o |-> "O", p |-> "P", q |-> "Q", r |-> "R", s |-> "S", t |-> "T", u |-> "U",
   v |-> "V", w |-> "W", x |-> "X", y |-> "Y", z |-> "Z"]

toUpperCase(s) ==
  [k \in 1..Len(s) |-> IF s[k] \in DOMAIN UpperOf THEN UpperOf[s[k]] ELSE s[k]]

toLowerCase(s) ==
  [k \in 1..Len(s) |->
     IF \E c \in DOMAIN UpperOf : UpperOf[c] = s[k]
     THEN CHOOSE c \in DOMAIN UpperOf : UpperOf[c] = s[k]
     ELSE s[k]]

RECURSIVE TrimStart(_)
TrimStart(s) == IF s # << >> /\ Head(s) = " " THEN TrimStart(Tail(s)) ELSE s

RECURSIVE TrimEnd(_)
TrimEnd(s) ==
  IF s # << >> /\ s[Len(s)] = " " THEN TrimEnd(SubSeq(s, 1, Len(s) - 1)) ELSE s

trim(s) == TrimEnd(TrimStart(s))

\* replace(/\D/g, ""): keep the digits
RECURSIVE StripNonDigits(_)
StripNonDigits(s) ==
  IF s = << >> THEN << >>
  ELSE (IF IsDigit(Head(s)) THEN <<Head(s)>> ELSE << >>) \o StripNonDigits(Tail(s))

\* the replace left out: the dashes stay
KeepDashes(s) == s

\* replace(/-/g, ""): drop the dashes
RECURSIVE StripDashes(_)
StripDashes(s) ==
  IF s = << >> THEN << >>
  ELSE (IF Head(s) = "-" THEN << >> ELSE <<Head(s)>>) \o StripDashes(Tail(s))

\* the longest prefix of digits
RECURSIVE LeadingDigits(_)
LeadingDigits(s) ==
  IF s # << >> /\ IsDigit(Head(s)) THEN <<Head(s)>> \o LeadingDigits(Tail(s)) ELSE << >>

RECURSIVE DigitsToNat(_)
DigitsToNat(ds) ==
  IF ds = << >> THEN 0
  ELSE DigitsToNat(SubSeq(ds, 1, Len(ds) - 1)) * 10 + DigitValue(ds[Len(ds)])

\* parseFloat(value) on integers: String(value), leading blanks skipped, an optional
\* sign, then the longest run of digits; NaN when there is none
parseFloat(v) ==
  LET s == TrimStart(ToChars(v))
      neg == s # << >> /\ Head(s) = "-"
      body == IF s # << >> /\ Head(s) \in {"-", "+"} THEN Tail(s) ELSE s
      ds == LeadingDigits(body)
  IN IF ds = << >> THEN NaN
     ELSE Num(IF neg THEN 0 - DigitsToNat(ds) ELSE DigitsToNat(ds))

\* Boolean(value)
ToBoolean(v) ==
  CASE v.t = "bool" -> v.b
    [] v.t = "num" -> v.n # 0
    [] v.t = "str" -> v.s # << >>
    [] v.t \in {"null", "undef", "nan"} -> FALSE
    [] v.t \in {"arr", "obj"} -> TRUE

(***************************************************************************)
(* Path Resolver.  A path string is the sequence of its segments: a key,   *)
(* a literal index "[n]" or the wildcard "[*]"; the dots between segments  *)
(* are implicit; the empty sequence is the empty (or missing) path.         *)
(***************************************************************************)
Wildcard == "[*]"

\* the key a segment becomes under replace(/\[(\d+)\]/g, ".$1").split(".")
SegmentKey(seg) ==
  CASE seg = "[0]" -> "0"
    [] seg = "[1]" -> "1"
    [] seg = "[2]" -> "2"
    [] OTHER -> seg

PathKeys(pathStr) == [k \in 1..Len(pathStr) |-> SegmentKey(pathStr[k])]

\* value[key]: an own property of an object, an element of an array, a character of a
\* string; undefined otherwise
Prop(value, key) ==
  CASE value.t = "obj" -> IF key \in DOMAIN value.o THEN value.o[key] ELSE Undef
    [] value.t = "arr" ->
         IF IsDigit(key) /\ DigitValue(key) < Len(value.a)
         THEN value.a[DigitValue(key) + 1] ELSE Undef
    [] value.t = "str" ->
         IF IsDigit(key) /\ DigitValue(key) < Len(value.s)
         THEN Str(<<value.s[DigitValue(key) + 1]>>) ELSE Undef
    [] OTHER -> Undef

\* the loop over keys and the final "value ?? defaultValue"
RECURSIVE WalkKeys(_, _, _)
WalkKeys(value, keys, defaultValue) ==
  IF keys = << >> THEN (IF IsNullish(value) THEN defaultValue ELSE value)
  ELSE IF IsNullish(value) THEN defaultValue
  ELSE WalkKeys(Prop(value, Head(keys)), Tail(keys), defaultValue)

HasWildcard(pathStr) == \E k \in 1..Len(pathStr) : pathStr[k] = Wildcard

FirstWildcard(pathStr) ==
  CHOOSE k \in 1..Len(pathStr) :
    pathStr[k] = Wildcard /\ \A j \in 1..(k - 1) : pathStr[j] # Wildcard

\* split("[*]")[0]
ArrayPath(pathStr) == SubSeq(pathStr, 1, FirstWildcard(pathStr) - 1)

\* split("[*]")[1]: what stands between the first wildcard and the next one
RestPath(pathStr) ==
  LET after == SubSeq(pathStr, FirstWildcard(pathStr) + 1, Len(pathStr))
  IN IF HasWildcard(after) THEN ArrayPath(after) ELSE after

RECURSIVE getNestedValue(_, _, _)
getNestedValue(obj, pathStr, dflt) ==
  LET defaultValue == DefaultNull(dflt)
  IN IF pathStr = << >> THEN defaultValue
     ELSE IF HasWildcard(pathStr)
     THEN LET array == getNestedValue(obj, ArrayPath(pathStr), Arr(<< >>))
              restPath == RestPath(pathStr)
          IN IF array.t # "arr" THEN defaultValue
             ELSE Arr([k \in 1..Len(array.a) |->
                        IF restPath # << >>
                        THEN getNestedValue(array.a[k], restPath, Undef)
                        ELSE array.a[k]])
     ELSE WalkKeys(obj, PathKeys(pathStr), defaultValue)

(***************************************************************************)
(* Transform Stage                                                         *)
(***************************************************************************)
\* parseFloat(v) || 0
ParsedOrZero(v) == LET p == parseFloat(v) IN IF p = NaN THEN 0 ELSE p.n

\* the reduce adding only the entries that are numbers already
RECURSIVE SumNumbersOnly(_)
SumNumbersOnly(a) ==
  IF a = << >> THEN 0
  ELSE (IF Head(a).t = "num" THEN Head(a).n ELSE 0) + SumNumbersOnly(Tail(a))

\* value.reduce((sum, v) => sum + (parseFloat(v) || 0), 0)
RECURSIVE SumParsed(_)
SumParsed(a) == IF a = << >> THEN 0 ELSE ParsedOrZero(Head(a)) + SumParsed(Tail(a))

\* a transform name is a string; "" stands for a binding that declares none
applyTransform(value, transform) ==
  IF transform = "" THEN value
  ELSE CASE transform = "uppercase" -> Str(toUpperCase(ToChars(value)))
         [] transform = "lowercase" -> Str(toLowerCase(ToChars(value)))
         [] transform = "trim" -> Str(trim(ToChars(value)))
         [] transform = "sum" -> IF value.t = "arr" THEN Num(SumParsed(value.a)) ELSE value
         [] transform = "count" -> IF value.t = "arr" THEN Num(Len(value.a)) ELSE Num(0)
         [] OTHER -> value

(***************************************************************************)
(* Value Formatter.  The type "date" is not modelled: no field of the      *)
(* model declares it.                                                      *)
(***************************************************************************)
\* the thousands grouping of toLocaleString("en-US")
RECURSIVE GroupThousands(_)
GroupThousands(ds) ==
  IF Len(ds) <= 3 THEN ds
  ELSE GroupThousands(SubSeq(ds, 1, Len(ds) - 3)) \o <<",">> \o SubSeq(ds, Len(ds) - 2, Len(ds))

\* n.toLocaleString("en-US", {minimumFractionDigits: d, maximumFractionDigits: d}) for
\* an integer n
toLocaleString(n, decimals) ==
  LET mag == GroupThousands(NatToChars(IF n < 0 THEN 0 - n ELSE n))
      frac == IF decimals > 0 THEN <<".">> \o [k \in 1..decimals |-> "0"] ELSE << >>
  IN (IF n < 0 THEN <<"-">> ELSE << >>) \o mag \o frac

\* format.decimalPlaces ?? dflt
DecimalPlaces(field, dflt) ==
  IF IsNullish(field.format.decimalPlaces) THEN dflt ELSE field.format.decimalPlaces.n

formatValue(value, field) ==
  IF IsNullish(value) \/ value = EmptyStr THEN EmptyStr
  ELSE CASE field.type = "currency" ->
              LET num == parseFloat(value)
                  formatted == toLocaleString(num.n, DecimalPlaces(field, 2))
              IN IF num = NaN THEN EmptyStr
                 ELSE IF field.format.currencySymbol THEN Str(<<"$">> \o formatted)
                 ELSE Str(formatted)
         [] field.type = "number" ->
              LET n == parseFloat(value)
              IN IF n = NaN THEN EmptyStr
                 ELSE Str(toLocaleString(n.n, DecimalPlaces(field, 0)))
         [] field.type = "ssn" ->
              LET digits == StripNonDigits(ToChars(value))
              IN IF Len(digits) = 9
                 THEN Str(SubSeq(digits, 1, 3) \o <<"-">> \o SubSeq(digits, 4, 5)
                          \o <<"-">> \o SubSeq(digits, 6, 9))
                 ELSE Str(digits)
         [] field.type = "ein" ->
              LET einDigits == StripNonDigits(ToChars(value))
              IN IF Len(einDigits) = 9
                 THEN Str(SubSeq(einDigits, 1, 2) \o <<"-">> \o SubSeq(einDigits, 3, 9))
                 ELSE Str(einDigits)
         [] field.type = "checkbox" -> Bool(ToBoolean(value))
         [] OTHER -> Str(ToChars(value))

(***************************************************************************)
(* Condition Evaluator.  A condition is absent (Undef), or the three       *)
(* groups the regular expression /^(.+?)\s*(===|!==|==|!=)\s*(.+)$/ finds  *)
(* in it: [pathStr, operator, expectedStr], or a string the expression     *)
(* does not match ([nomatch |-> TRUE]).                                    *)
(***************************************************************************)
\* !isNaN(expected) for a trimmed, non-empty literal written with digits
IsNumericLiteral(s) ==
  LET body == IF s # << >> /\ Head(s) = "-" THEN Tail(s) ELSE s
  IN body # << >> /\ \A k \in 1..Len(body) : IsDigit(body[k])

ParseLiteral(expectedStr) ==
  LET expected == trim(expectedStr)
  IN CASE expected = <<"t", "r", "u", "e">> -> Bool(TRUE)
       [] expected = <<"f", "a", "l", "s", "e">> -> Bool(FALSE)
       [] expected = <<"n", "u", "l", "l">> -> Null
       [] OTHER -> IF IsNumericLiteral(expected) THEN parseFloat(Str(expected))
                   ELSE Str(expected)

\* ===: values of primitive type compare by value; an array or an object is never
\* identical to a literal, nor is NaN
StrictEquals(a, b) == a = b /\ a.t \notin {"arr", "obj", "nan"}

evaluateCondition(condition, data) ==
  IF condition = Undef THEN TRUE
  ELSE IF "nomatch" \in DOMAIN condition THEN TRUE
  ELSE LET actualValue == getNestedValue(data, condition.pathStr, Undef)
           expected == ParseLiteral(condition.expectedStr)
       IN CASE condition.operator \in {"===", "=="} -> StrictEquals(actualValue, expected)
            [] condition.operator \in {"!==", "!="} -> ~StrictEquals(actualValue, expected)
            [] OTHER -> TRUE

(***************************************************************************)
(* Inputs: data documents, field definitions, target documents, options    *)
(***************************************************************************)
MaxFields == 2

EmptyObject == Obj([k \in {} |-> Null])

DataFull ==
  Obj([name |-> Str(<<"J", "o">>),
       ssn |-> Str(<<"1", "2", "3", "-", "4", "5", "-", "6", "7", "8", "9">>),
       single |-> Bool(TRUE),
       joint |-> Bool(FALSE),
       total |-> Num(1500),
       spouse |-> Null,
       w2 |-> Arr(<<Obj([wages |-> Num(10)]), Obj([wages |-> Str(<<"2", "0">>)]),
                    Obj([wages |-> Str(<<"n", "/", "a">>)]), EmptyObject>>)])

DataSparse ==
  Obj([name |-> Str(<<" ", "a", "l", " ">>),
       ssn |-> Num(12345),
       single |-> Bool(FALSE),
       joint |-> Str(<<"n", "o">>),
       total |-> Num(0),
       w2 |-> Arr(<< >>)])

DataDocuments == {DataFull, DataSparse, EmptyObject}

NoFormat == [decimalPlaces |-> Undef, currencySymbol |-> FALSE, checkMark |-> Undef]

NoCondition == Undef

Condition(pathStr, operator, expectedStr) ==
  [pathStr |-> pathStr, operator |-> operator, expectedStr |-> expectedStr]

\* a field definition of the annotation; nativeFieldId "" stands for a field that
\* declares none, fallback Undef for a binding without fallback
FieldDef(id, type, page, nativeFieldId, path, transform, condition, fallback) ==
  [id |-> id, type |-> type, page |-> page, nativeFieldId |-> nativeFieldId,
   binding |-> [path |-> path, transform |-> transform, condition |-> condition,
                fallback |-> fallback],
   format |-> NoFormat]

SpousePath == <<"spouse", "name">>

FieldPool ==
  { FieldDef("name", "text", 1, "f_name", <<"name">>, "", NoCondition, Undef),
    FieldDef("single", "checkbox", 1, "c_single", <<"single">>, "",
             Condition(<<"single">>, "===", <<"t", "r", "u", "e">>), Undef),
    FieldDef("joint", "checkbox", 1, "", <<"joint">>, "", NoCondition, Undef),
    FieldDef("wages", "currency", 1, "f_wages", <<"w2", Wildcard, "wages">>, "sum",
             NoCondition, Undef),
    FieldDef("first_wages", "number", 2, "", <<"w2", "[0]", "wages">>, "",
             Condition(<<"total">>, "!=", <<"0">>), Undef),
    FieldDef("ssn", "ssn", 1, "f_ssn", <<"ssn">>, "", NoCondition, Undef),
    FieldDef("far", "text", 3, "", <<"name">>, "trim", NoCondition, Undef),
    FieldDef("mismatch", "text", 1, "c_single", <<"name">>, "", NoCondition, Undef),
    FieldDef("spouse_box", "checkbox", 1, "f_name", <<"spouse", "here">>, "",
             NoCondition, Bool(TRUE)),
    FieldDef("spouse_fb", "text", 1, "", SpousePath, "", NoCondition,
             Str(<<"N", "/", "A">>)),
    FieldDef("spouse", "text", 1, "", SpousePath, "", NoCondition, Undef),
    FieldDef("spouse_upper", "text", 1, "", SpousePath, "uppercase", NoCondition, Undef),
    FieldDef("spouse_lower", "text", 1, "f_spouse", SpousePath, "lowercase",
             NoCondition, Undef),
    FieldDef("spouse_trim", "ein", 1, "", SpousePath, "trim", NoCondition, Undef),
    FieldDef("spouse_sum", "text", 1, "f_spouse", SpousePath, "sum", NoCondition, Undef),
    FieldDef("spouse_count", "text", 1, "", SpousePath, "count", NoCondition, Undef),
    FieldDef("spouse_other", "text", 1, "f_spouse", SpousePath, "reverse",
             NoCondition, Undef),
    FieldDef("gone", "text", 1, "f_gone", <<"total">>, "", NoCondition, Undef),
    FieldDef("unmarried", "text", 1, "", <<"name">>, "",
             Condition(<<"spouse">>, "===", <<"n", "u", "l", "l">>), Undef) }

\* the field lists of at most MaxFields fields with pairwise distinct ids
FieldLists ==
  UNION { { fl \in [1..n -> FieldPool] :
              \A a, b \in 1..n : a # b => fl[a].id # fl[b].id } : n \in 0..MaxFields }

TextField(maxLength) == [kind |-> "text", maxLength |-> maxLength]

CheckBox == [kind |-> "checkbox"]

\* a document with interactive fields and two pages
PdfFillable ==
  [pages |-> 2,
   form |-> [f_name |-> TextField(Undef), f_wages |-> TextField(Undef),
             f_spouse |-> TextField(Undef), f_ssn |-> TextField(Num(9)),
             c_single |-> CheckBox]]

\* a flat document: one page, no interactive field
PdfFlat == [pages |-> 1, form |-> [k \in {} |-> CheckBox]]

\* bytes PDFDocument.load cannot read
PdfCorrupt == [corrupt |-> TRUE]

PdfFiles == {PdfFillable, PdfFlat, PdfCorrupt}

\* a group of radio buttons and the values it can select
RadioGroup(choices) == [kind |-> "radio", choices |-> choices]

\* a fillable 1040: text fields, one of them limited to nine characters, check
\* boxes and a radio group
Pdf1040 ==
  [pages |-> 2,
   form |-> [f1_01 |-> TextField(Undef), f1_02 |-> TextField(Undef),
             f1_03 |-> TextField(Num(9)), f1_47 |-> TextField(Undef),
             c1_1 |-> CheckBox, c1_2 |-> CheckBox, c1_5 |-> CheckBox,
             c1_7 |-> RadioGroup({"1", "2"})]]

FillPdfFiles == {Pdf1040, PdfFlat, PdfCorrupt}

CheckboxMapping(fieldId, checkedValue) == [fieldId |-> fieldId, checkedValue |-> checkedValue]

NoMapping == [textFields |-> [k \in {} |-> ""], checkboxes |-> [k \in {} |-> ""]]

\* FIELD_MAPPING: every mapped id is a field of Pdf1040 of the expected kind
MappingGood ==
  [textFields |->
     ("taxpayer.firstName" :> "f1_01") @@ ("taxpayer.lastName" :> "f1_02")
       @@ ("taxpayer.ssn" :> "f1_03") @@ ("income.line9" :> "f1_47"),
   checkboxes |->
     ("filingStatus.single" :> CheckboxMapping("c1_1", "1"))
       @@ ("filingStatus.marriedJoint" :> CheckboxMapping("c1_2", "2"))
       @@ ("homeInUS" :> CheckboxMapping("c1_5", "1"))
       @@ ("digitalAssets.yes" :> CheckboxMapping("c1_7", "1"))
       @@ ("digitalAssets.no" :> CheckboxMapping("c1_7", "2"))]

\* FIELD_MAPPING with ids of another kind, a value the radio group does not offer,
\* and an id the document does not have
MappingOdd ==
  [textFields |->
     ("taxpayer.firstName" :> "c1_1") @@ ("taxpayer.ssn" :> "f1_01")
       @@ ("income.line1a" :> "f1_99"),
   checkboxes |->
     ("filingStatus.single" :> CheckboxMapping("f1_01", "1"))
       @@ ("filingStatus.marriedJoint" :> CheckboxMapping("c1_9", "2"))
       @@ ("digitalAssets.yes" :> CheckboxMapping("c1_7", "3"))
       @@ ("digitalAssets.no" :> CheckboxMapping("c1_2", "1"))]

FieldMappings == {MappingGood, MappingOdd, NoMapping}

TaxpayerJo ==
  Obj([name |-> Obj([first |-> Str(<<"J", "o">>), middle |-> Str(<<"A">>),
                     last |-> Str(<<"D", "o", "e">>)]),
       ssn |-> Str(<<"1", "2", "3", "-", "4", "5", "-", "6", "7", "8", "9">>)])

FillDataSingle ==
  Obj([taxpayer |-> TaxpayerJo,
       filingStatus |-> Obj([single |-> Bool(TRUE), marriedJoint |-> Bool(FALSE)]),
       income |-> Obj([w2 |-> Arr(<<Obj([wages |-> Num(75000)])>>), total |-> Num(75500),
                       interest |-> Obj([taxable |-> Num(0)])]),
       digitalAssets |-> Obj([hasActivity |-> Bool(FALSE)]),
       homeInUS |-> Obj([taxpayer |-> Bool(TRUE)]),
       presidentialElectionCampaign |-> Obj([taxpayer |-> Bool(FALSE), spouse |-> Bool(TRUE)])])

FillDataJoint ==
  Obj([taxpayer |-> Obj([ssn |-> Num(12345)]),
       filingStatus |-> Obj([single |-> Bool(FALSE), marriedJoint |-> Bool(TRUE)]),
       income |-> Obj([total |-> Num(0)]),
       digitalAssets |-> Obj([hasActivity |-> Bool(TRUE)])])

FillDataNoStatus ==
  Obj([filingStatus |-> Obj([single |-> Bool(FALSE), marriedJoint |-> Bool(FALSE)]),
       digitalAssets |-> EmptyObject,
       homeInUS |-> Obj([taxpayer |-> Bool(FALSE)])])

FillDataDocuments == {FillDataSingle, FillDataJoint, FillDataNoStatus, EmptyObject}

\* the options object render receives; the command line passes none
OptionSets ==
  { [useNativeFields |-> Undef, preferNativeFields |-> Undef],
    [useNativeFields |-> Bool(FALSE), preferNativeFields |-> Undef],
    [useNativeFields |-> Undef, preferNativeFields |-> Bool(FALSE)] }

(***************************************************************************)
(* One field in each placement pass                                        *)
(***************************************************************************)
\* getNestedValue then applyTransform, as both passes chain them
TransformedValue(field, data) ==
  applyTransform(getNestedValue(data, field.binding.path, field.binding.fallback),
                 field.binding.transform)

\* the value both passes test and place
FormattedValue(field, data) == formatValue(TransformedValue(field, data), field)

\* what one iteration of a pass does: the operations it performs on the document,
\* its increments of filledCount and fallbackCount, and the warnings it logs
Outcome(ops, filled, fallback, warned) ==
  [ops |-> ops, filled |-> filled, fallback |-> fallback, warned |-> warned]

Skipped == Outcome(<< >>, 0, 0, << >>)

\* form.getCheckBox(id) returns a field (it throws otherwise)
HasCheckBox(form, id) == id \in DOMAIN form /\ form[id].kind = "checkbox"

\* form.getTextField(id) returns a field (it throws otherwise)
HasTextField(form, id) == id \in DOMAIN form /\ form[id].kind = "text"

\* textField.setText(text) accepts the text (it throws when the field's maxLength
\* is exceeded)
AcceptsText(form, id, text) ==
  IsNullish(form[id].maxLength) \/ Len(text) <= form[id].maxLength.n

\* the try block of fillWithNativeFields and its catch
NativeAttempt(field, formattedValue, form) ==
  IF field.type = "checkbox"
  THEN IF formattedValue = Bool(TRUE)
       THEN IF HasCheckBox(form, field.nativeFieldId)
            THEN Outcome(<<[op |-> "check", field |-> field.id,
                            id |-> field.nativeFieldId]>>, 1, 0, << >>)
            ELSE Outcome(<< >>, 0, 0, <<[field |-> field.id, what |-> "native"]>>)
       ELSE Skipped
  ELSE LET valueToSet == IF field.type = "ssn"
                         THEN StripDashes(ToChars(formattedValue))
                         ELSE ToChars(formattedValue)
       IN IF HasTextField(form, field.nativeFieldId)
             /\ AcceptsText(form, field.nativeFieldId, valueToSet)
          THEN Outcome(<<[op |-> "setText", field |-> field.id,
                          id |-> field.nativeFieldId, text |-> valueToSet]>>, 1, 0, << >>)
          ELSE Outcome(<< >>, 0, 0, <<[field |-> field.id, what |-> "native"]>>)

\* the body of the loop of fillWithNativeFields
NativeField(field, data, form) ==
  IF ~evaluateCondition(field.binding.condition, data) THEN Skipped
  ELSE IF field.nativeFieldId = "" THEN Outcome(<< >>, 0, 1, << >>)
  ELSE LET formattedValue == FormattedValue(field, data)
       IN IF formattedValue = EmptyStr /\ field.type # "checkbox" THEN Skipped
          ELSE NativeAttempt(field, formattedValue, form)

\* format.checkMark || "X"
CheckMark(field) ==
  IF IsNullish(field.format.checkMark) \/ field.format.checkMark = EmptyStr
  THEN <<"X">> ELSE field.format.checkMark.s

\* the check box test loosened from "=== true" to "!== false"
CoordDrawUnlessFalse(field, formattedValue) ==
  IF field.type = "checkbox"
  THEN IF formattedValue # Bool(FALSE)
       THEN Outcome(<<[op |-> "drawText", field |-> field.id, page |-> field.page,
                       text |-> CheckMark(field)]>>, 1, 0, << >>)
       ELSE Skipped
  ELSE Outcome(<<[op |-> "drawText", field |-> field.id, page |-> field.page,
                  text |-> ToChars(formattedValue)]>>, 1, 0, << >>)

\* the drawing part of the loop of fillWithCoordinates, once the page is found
CoordDraw(field, formattedValue) ==
  IF field.type = "checkbox"
  THEN IF formattedValue = Bool(TRUE)
       THEN Outcome(<<[op |-> "drawText", field |-> field.id, page |-> field.page,
                       text |-> CheckMark(field)]>>, 1, 0, << >>)
       ELSE Skipped
  ELSE Outcome(<<[op |-> "drawText", field |-> field.id, page |-> field.page,
                  text |-> ToChars(formattedValue)]>>, 1, 0, << >>)

\* the body of the loop of fillWithCoordinates; pages[field.page - 1] exists when
\* 1 <= field.page <= numPages
CoordField(field, data, numPages) ==
  IF ~evaluateCondition(field.binding.condition, data) THEN Skipped
  ELSE LET formattedValue == FormattedValue(field, data)
       IN IF formattedValue = EmptyStr /\ field.type # "checkbox" THEN Skipped
          ELSE IF ~(1 <= field.page /\ field.page <= numPages)
          THEN Outcome(<< >>, 0, 0, <<[field |-> field.id, what |-> "page"]>>)
          ELSE CoordDraw(field, formattedValue)

\* the test made on the first field only: annotation.fields[0].nativeFieldId
FirstFieldNative(fieldList) == fieldList # << >> /\ fieldList[1].nativeFieldId # ""

\* annotation.fields.some(f => f.nativeFieldId)
HasNativeFields(fieldList) == \E k \in 1..Len(fieldList) : fieldList[k].nativeFieldId # ""

\* options.useNativeFields !== false && hasNativeFields
UseNative(opts, fieldList) ==
  opts.useNativeFields # Bool(FALSE) /\ HasNativeFields(fieldList)

\* the filter left out: the whole annotation goes through the coordinate pass
NonNativeFieldsUnfiltered(fieldList) == fieldList

\* annotation.fields.filter(f => !f.nativeFieldId)
RECURSIVE NonNativeFields(_)
NonNativeFields(fieldList) ==
  IF fieldList = << >> THEN << >>
  ELSE (IF Head(fieldList).nativeFieldId = "" THEN <<Head(fieldList)>> ELSE << >>)
       \o NonNativeFields(Tail(fieldList))

(***************************************************************************)
(* fillForm, the 1040-specific native filler: its formatters, its two      *)
(* tables of values, and the field mapping it requires                     *)
(***************************************************************************)
\* a.b?.c: the value found by following keys from value, undefined once a link is
\* null or undefined
RECURSIVE Chain(_, _)
Chain(value, keys) ==
  IF keys = << >> THEN value
  ELSE IF IsNullish(value) THEN Undef
  ELSE Chain(Prop(value, Head(keys)), Tail(keys))

\* a || b
OrElse(a, b) == IF ToBoolean(a) THEN a ELSE b

formatSSN(ssn) ==
  IF ~ToBoolean(ssn) THEN EmptyStr
  ELSE LET digits == StripNonDigits(ToChars(ssn))
       IN Str(SubSeq(digits, 1, IF Len(digits) < 9 THEN Len(digits) ELSE 9))

formatCurrency(value) ==
  IF IsNullish(value) \/ value = EmptyStr THEN EmptyStr
  ELSE LET num == parseFloat(value)
       IN IF num = NaN \/ num = Num(0) THEN EmptyStr ELSE Str(toLocaleString(num.n, 2))

Entry(key, value) == [key |-> key, value |-> value]

\* values[key] = formatCurrency(<the value at path>) for each <<key, path>> of rows
CurrencyEntries(data, rows) ==
  [k \in 1..Len(rows) |-> Entry(rows[k][1], formatCurrency(Chain(data, rows[k][2])))]

\* firstName + middleInitial of data.taxpayer or data.spouse
FullFirstName(person) ==
  LET firstName == OrElse(Chain(person, <<"name", "first">>), EmptyStr)
      middle == Chain(person, <<"name", "middle">>)
      middleInitial == IF ToBoolean(middle) THEN Str(<<" ">> \o ToChars(middle)) ELSE EmptyStr
  IN Str(ToChars(firstName) \o ToChars(middleInitial))

\* w2.reduce((sum, w) => sum + (w.wages || 0), 0), for numeric wages
RECURSIVE SumWages(_)
SumWages(w2) ==
  IF w2 = << >> THEN 0
  ELSE OrElse(Prop(Head(w2), "wages"), Num(0)).n + SumWages(Tail(w2))

\* a number or 0: (x || 0)
NumberOrZero(x) == OrElse(x, Num(0)).n

PersonalEntries(data) ==
  LET taxpayer == Chain(data, <<"taxpayer">>)
  IN IF ~ToBoolean(taxpayer) THEN << >>
     ELSE << Entry("taxpayer.firstName", FullFirstName(taxpayer)),
             Entry("taxpayer.lastName", OrElse(Chain(taxpayer, <<"name", "last">>), EmptyStr)),
             Entry("taxpayer.ssn", formatSSN(Chain(taxpayer, <<"ssn">>))),
             Entry("signature.occupation",
                   OrElse(Chain(taxpayer, <<"occupation">>),
                          OrElse(Chain(data, <<"signatures", "taxpayer", "occupation">>),
                                 EmptyStr))) >>

SpouseEntries(data) ==
  LET spouse == Chain(data, <<"spouse">>)
  IN IF ~ToBoolean(Chain(spouse, <<"name", "first">>)) THEN << >>
     ELSE << Entry("spouse.firstName", FullFirstName(spouse)),
             Entry("spouse.lastName", OrElse(Chain(spouse, <<"name", "last">>), EmptyStr)),
             Entry("spouse.ssn", formatSSN(Chain(spouse, <<"ssn">>))) >>

AddressEntries(data) ==
  LET address == Chain(data, <<"taxpayer", "address">>)
      Line(key, prop) == Entry(key, OrElse(Chain(address, <<prop>>), EmptyStr))
  IN IF ~ToBoolean(address) THEN << >>
     ELSE << Line("address.street", "line1"), Line("address.apt", "aptNo"),
             Line("address.city", "city"), Line("address.state", "state"),
             Line("address.zip", "zip") >>

IncomeEntries(data) ==
  LET income == Chain(data, <<"income">>)
      w2 == Chain(income, <<"w2">>)
      w2Wages == IF IsNullish(w2) THEN Num(0) ELSE OrElse(Num(SumWages(w2.a)), Num(0))
  IN IF ~ToBoolean(income) THEN << >>
     ELSE <<Entry("income.line1a", formatCurrency(w2Wages))>> \o
          CurrencyEntries(income,
            << <<"income.line1b", <<"householdEmployeeWages">> >>,
               <<"income.line1c", <<"tipIncome">> >>,
               <<"income.line1d", <<"medicaidWaiverPayments">> >>,
               <<"income.line1e", <<"dependentCareBenefits">> >>,
               <<"income.line1f", <<"adoptionBenefits">> >>,
               <<"income.line1g", <<"wagesFromForm8919">> >>,
               <<"income.line1h", <<"otherEarnedIncome">> >>,
               <<"income.line1z", <<"totalEarnedIncome">> >>,
               <<"income.line2a", <<"interest", "taxExempt">> >>,
               <<"income.line2b", <<"interest", "taxable">> >>,
               <<"income.line3a", <<"dividends", "qualified">> >>,
               <<"income.line3b", <<"dividends", "ordinary">> >>,
               <<"income.line4a", <<"iraDistributions", "total">> >>,
               <<"income.line4b", <<"iraDistributions", "taxable">> >>,
               <<"income.line5a", <<"pensions", "total">> >>,
               <<"income.line5b", <<"pensions", "taxable">> >>,
               <<"income.line6a", <<"socialSecurity", "total">> >>,
               <<"income.line6b", <<"socialSecurity", "taxable">> >>,
               <<"income.line7a", <<"capitalGains", "gainOrLoss">> >>,
               <<"income.line8", <<"other", "amount">> >>,
               <<"income.line9", <<"total">> >> >>)

AdjustmentEntries(data) ==
  CurrencyEntries(data,
    << <<"income.line10", <<"adjustments", "total">> >>,
       <<"income.line11a", <<"adjustedGrossIncome">> >>,
       <<"tax.line11b", <<"adjustedGrossIncome">> >> >>)

DeductionEntries(data) ==
  LET deductions == Chain(data, <<"deductions">>)
      deduction == IF Chain(deductions, <<"type">>) = Str(<<"s", "t", "a", "n", "d", "a", "r", "d">>)
                   THEN Chain(deductions, <<"standard", "amount">>)
                   ELSE Chain(deductions, <<"itemized", "amount">>)
      qbi == Chain(deductions, <<"qualifiedBusinessIncome">>)
      agi == NumberOrZero(Chain(data, <<"adjustedGrossIncome">>))
      totalDeductions == NumberOrZero(deduction) + NumberOrZero(qbi)
      taxable == IF agi - totalDeductions > 0 THEN agi - totalDeductions ELSE 0
  IN IF ~ToBoolean(deductions) THEN << >>
     ELSE << Entry("tax.line12e", formatCurrency(deduction)),
             Entry("tax.line13a", formatCurrency(qbi)),
             Entry("tax.line14", formatCurrency(deduction)),
             Entry("tax.line15", formatCurrency(Num(taxable))) >>

TaxEntries(data) ==
  IF ~ToBoolean(Chain(data, <<"tax">>)) THEN << >>
  ELSE CurrencyEntries(data,
         << <<"tax.line16", <<"tax", "total">> >>, <<"tax.line18", <<"tax", "total">> >>,
            <<"tax.line22", <<"tax", "total">> >>, <<"tax.line24", <<"tax", "total">> >> >>)

PaymentEntries(data) ==
  IF ~ToBoolean(Chain(data, <<"payments">>)) THEN << >>
  ELSE CurrencyEntries(data,
         << <<"payments.line25a", <<"payments", "federalWithholding", "fromW2">> >>,
            <<"payments.line25b", <<"payments", "federalWithholding", "from1099">> >>,
            <<"payments.line25c", <<"payments", "federalWithholding", "fromOtherForms">> >>,
            <<"payments.line25d", <<"payments", "federalWithholding", "total">> >>,
            <<"payments.line26", <<"payments", "estimatedTaxPayments">> >>,
            <<"payments.line33", <<"payments", "totalPayments">> >> >>)

RefundEntries(data) ==
  LET refund == Chain(data, <<"refund">>)
  IN IF ~ToBoolean(refund) THEN << >>
     ELSE << Entry("refund.line34", formatCurrency(Chain(refund, <<"overpaid">>))),
             Entry("refund.line35a", formatCurrency(Chain(refund, <<"refundAmount">>))),
             Entry("refund.line35b",
                   OrElse(Chain(refund, <<"directDeposit", "routingNumber">>), EmptyStr)),
             Entry("refund.line35d",
                   OrElse(Chain(refund, <<"directDeposit", "accountNumber">>), EmptyStr)),
             Entry("refund.line36",
                   formatCurrency(Chain(refund, <<"applyTo2026EstimatedTax">>))) >>

OwedEntries(data) ==
  IF ~ToBoolean(Chain(data, <<"amountOwed">>)) THEN << >>
  ELSE CurrencyEntries(data,
         << <<"owed.line37", <<"amountOwed", "total">> >>,
            <<"owed.line38", <<"amountOwed", "estimatedTaxPenalty">> >> >>)

\* Object.entries(transformData(data)), in insertion order
transformData(data) ==
  PersonalEntries(data) \o SpouseEntries(data) \o AddressEntries(data)
    \o IncomeEntries(data) \o AdjustmentEntries(data) \o DeductionEntries(data)
    \o TaxEntries(data) \o PaymentEntries(data) \o RefundEntries(data) \o OwedEntries(data)

\* the filing status entry: the first truthy status of the else-if chain
RECURSIVE FirstStatus(_, _)
FirstStatus(filingStatus, names) ==
  IF names = << >> THEN << >>
  ELSE IF ToBoolean(Chain(filingStatus, <<Head(names)>>))
  THEN <<Entry("filingStatus." \o Head(names), Bool(TRUE))>>
  ELSE FirstStatus(filingStatus, Tail(names))

\* Object.entries(getCheckboxValues(data)), in insertion order
getCheckboxValues(data) ==
  LET When(cond, key) == IF cond THEN <<Entry(key, Bool(TRUE))>> ELSE << >>
      filingStatus == Chain(data, <<"filingStatus">>)
      hasActivity == Chain(data, <<"digitalAssets", "hasActivity">>)
      campaign == Chain(data, <<"presidentialElectionCampaign">>)
  IN When(ToBoolean(Chain(data, <<"homeInUS", "taxpayer">>)), "homeInUS")
     \o (IF ToBoolean(filingStatus)
         THEN FirstStatus(filingStatus,
                <<"single", "marriedJoint", "marriedSeparate", "headOfHousehold",
                  "qualifyingSurvivingSpouse">>)
         ELSE << >>)
     \o (IF hasActivity = Bool(TRUE) THEN <<Entry("digitalAssets.yes", Bool(TRUE))>>
         ELSE When(hasActivity = Bool(FALSE), "digitalAssets.no"))
     \o When(ToBoolean(Chain(campaign, <<"taxpayer">>)), "presidentialCampaign.you")
     \o When(ToBoolean(Chain(campaign, <<"spouse">>)), "presidentialCampaign.spouse")

(***************************************************************************)
(* render                                                                  *)
(***************************************************************************)
VARIABLES
  pc,            \* where render stands: start, native, coord, save, resolved, rejected
  pdf,           \* the bytes read from pdfPath
  annotation,    \* the parsed annotation: its field list
  data,          \* the parsed data document
  options,       \* the options argument
  useNative,     \* the rendering mode render determined
  fields,        \* the field list the running pass iterates
  i,             \* the position of the running pass in its list
  filledCount,   \* the running pass's local filledCount
  fallbackCount, \* fillWithNativeFields' local fallbackCount
  result,        \* render's result object, Undef until assigned
  placed,        \* the operations performed on pdfDoc, in order
  warnings,      \* the console.warn lines, in order
  visited,       \* the (pass, field id) pairs whose loop body has run
  written,       \* whether the output file has been written
  mapping,       \* fillForm: FIELD_MAPPING, the required field mapping
  entries,       \* fillForm: the entries the running loop iterates
  errorCount     \* fillForm: its local errorCount

vars ==
  <<pc, pdf, annotation, data, options, useNative, fields, i, filledCount,
    fallbackCount, result, placed, warnings, visited, written, mapping, entries,
    errorCount>>

inputs == <<pdf, annotation, data, options>>

\* the state only fillForm uses
fillState == <<mapping, entries, errorCount>>

\* the state only render uses
renderState == <<annotation, options, useNative, fields, fallbackCount, result, visited>>

Init ==
  /\ pc = "start"
  /\ pdf \in PdfFiles
  /\ annotation \in FieldLists
  /\ data \in DataDocuments
  /\ options \in OptionSets
  /\ useNative = FALSE
  /\ fields = << >>
  /\ i = 1
  /\ filledCount = 0
  /\ fallbackCount = 0
  /\ result = Undef
  /\ placed = << >>
  /\ warnings = << >>
  /\ visited = {}
  /\ written = FALSE
  /\ mapping = NoMapping
  /\ entries = << >>
  /\ errorCount = 0

\* the load failure swallowed: render goes on to save the output
LoadFailIgnored ==
  /\ pc = "start"
  /\ pdf = PdfCorrupt
  /\ pc' = "save"
  /\ UNCHANGED <<fillState, inputs, useNative, fields, i, filledCount, fallbackCount, result,
                 placed, warnings, visited, written>>

\* PDFDocument.load rejects: render rejects
LoadFail ==
  /\ pc = "start"
  /\ pdf = PdfCorrupt
  /\ pc' = "rejected"
  /\ UNCHANGED <<fillState, inputs, useNative, fields, i, filledCount, fallbackCount, result,
                 placed, warnings, visited, written>>

\* PDFDocument.load resolves; render determines the rendering mode and enters
\* the first pass over the whole annotation
LoadOk ==
  /\ pc = "start"
  /\ pdf # PdfCorrupt
  /\ useNative' = UseNative(options, annotation)
  /\ pc' = IF useNative' THEN "native" ELSE "coord"
  /\ fields' = annotation
  /\ i' = 1
  /\ filledCount' = 0
  /\ fallbackCount' = 0
  /\ UNCHANGED <<fillState, inputs, result, placed, warnings, visited, written>>

\* the loop body without its try/catch: the exception of a native operation leaves
\* fillWithNativeFields and rejects render
NativeStepUncaught ==
  /\ pc = "native"
  /\ i <= Len(fields)
  /\ LET out == NativeField(fields[i], data, pdf.form)
     IN /\ placed' = placed \o out.ops
        /\ filledCount' = filledCount + out.filled
        /\ fallbackCount' = fallbackCount + out.fallback
        /\ warnings' = warnings \o out.warned
        /\ pc' = IF out.warned # << >> THEN "rejected" ELSE pc
  /\ visited' = visited \cup {<<"native", fields[i].id>>}
  /\ i' = i + 1
  /\ UNCHANGED <<fillState, inputs, useNative, fields, result, written>>

\* one iteration of the loop of fillWithNativeFields
NativeStep ==
  /\ pc = "native"
  /\ i <= Len(fields)
  /\ LET out == NativeField(fields[i], data, pdf.form)
     IN /\ placed' = placed \o out.ops
        /\ filledCount' = filledCount + out.filled
        /\ fallbackCount' = fallbackCount + out.fallback
        /\ warnings' = warnings \o out.warned
  /\ visited' = visited \cup {<<"native", fields[i].id>>}
  /\ i' = i + 1
  /\ UNCHANGED <<fillState, pc, inputs, useNative, fields, result, written>>

\* the fallback list built by filtering annotation.fields in place
NativeReturnInPlace ==
  /\ pc = "native"
  /\ i > Len(fields)
  /\ result' = [filledCount |-> filledCount, fallbackCount |-> fallbackCount]
  /\ IF fallbackCount > 0
     THEN /\ pc' = "coord"
          /\ annotation' = NonNativeFields(annotation)
          /\ fields' = annotation'
          /\ i' = 1
          /\ filledCount' = 0
     ELSE /\ pc' = "save"
          /\ UNCHANGED <<annotation, fields, i, filledCount>>
  /\ UNCHANGED <<fillState, pdf, data, options, useNative, fallbackCount, placed, warnings,
                 visited, written>>

\* fillWithNativeFields returns; render starts the coordinate pass over the fields
\* without nativeFieldId when fallbackCount > 0
NativeReturn ==
  /\ pc = "native"
  /\ i > Len(fields)
  /\ result' = [filledCount |-> filledCount, fallbackCount |-> fallbackCount]
  /\ IF fallbackCount > 0
     THEN /\ pc' = "coord"
          /\ fields' = NonNativeFields(annotation)
          /\ i' = 1
          /\ filledCount' = 0
     ELSE /\ pc' = "save"
          /\ UNCHANGED <<fields, i, filledCount>>
  /\ UNCHANGED <<fillState, inputs, useNative, fallbackCount, placed, warnings, visited, written>>

\* one iteration of the loop of fillWithCoordinates
CoordStep ==
  /\ pc = "coord"
  /\ i <= Len(fields)
  /\ LET out == CoordField(fields[i], data, pdf.pages)
     IN /\ placed' = placed \o out.ops
        /\ filledCount' = filledCount + out.filled
        /\ warnings' = warnings \o out.warned
  /\ visited' = visited \cup {<<"coord", fields[i].id>>}
  /\ i' = i + 1
  /\ UNCHANGED <<fillState, pc, inputs, useNative, fields, fallbackCount, result, written>>

\* the coordinate count assigned to the result instead of added to it
CoordReturnOverwrites ==
  /\ pc = "coord"
  /\ i > Len(fields)
  /\ result' = IF useNative
               THEN [result EXCEPT !.filledCount = filledCount]
               ELSE [filledCount |-> filledCount]
  /\ pc' = "save"
  /\ UNCHANGED <<fillState, inputs, useNative, fields, i, filledCount, fallbackCount, placed,
                 warnings, visited, written>>

\* fillWithCoordinates returns its filledCount: added to the native result, or the
\* only key of the result when native placement was not used
CoordReturn ==
  /\ pc = "coord"
  /\ i > Len(fields)
  /\ result' = IF useNative
               THEN [result EXCEPT !.filledCount = @ + filledCount]
               ELSE [filledCount |-> filledCount]
  /\ pc' = "save"
  /\ UNCHANGED <<fillState, inputs, useNative, fields, i, filledCount, fallbackCount, placed,
                 warnings, visited, written>>

\* pdfDoc.save() and fs.writeFileSync succeed; render resolves with result
SaveOk ==
  /\ pc = "save"
  /\ written' = TRUE
  /\ pc' = "resolved"
  /\ UNCHANGED <<fillState, inputs, useNative, fields, i, filledCount, fallbackCount, result,
                 placed, warnings, visited>>

\* pdfDoc.save() or fs.writeFileSync throws; render rejects
SaveFail ==
  /\ pc = "save"
  /\ pc' = "rejected"
  /\ UNCHANGED <<fillState, inputs, useNative, fields, i, filledCount, fallbackCount, result,
                 placed, warnings, visited, written>>

(***************************************************************************)
(* fillForm                                                                *)
(***************************************************************************)
FillInit ==
  /\ pc = "fill_start"
  /\ pdf \in FillPdfFiles
  /\ data \in FillDataDocuments
  /\ mapping \in FieldMappings
  /\ annotation = << >>
  /\ options = [useNativeFields |-> Undef, preferNativeFields |-> Undef]
  /\ useNative = FALSE
  /\ fields = << >>
  /\ i = 1
  /\ filledCount = 0
  /\ fallbackCount = 0
  /\ result = Undef
  /\ placed = << >>
  /\ warnings = << >>
  /\ visited = {}
  /\ written = FALSE
  /\ entries = << >>
  /\ errorCount = 0

\* PDFDocument.load rejects: fillForm rejects
FillLoadFail ==
  /\ pc = "fill_start"
  /\ pdf = PdfCorrupt
  /\ pc' = "fill_rejected"
  /\ UNCHANGED <<renderState, pdf, data, mapping, entries, i, filledCount, errorCount,
                 placed, warnings, written>>

\* the document loads; the text values are computed and their loop starts
FillLoadOk ==
  /\ pc = "fill_start"
  /\ pdf # PdfCorrupt
  /\ pc' = "fill_text"
  /\ entries' = transformData(data)
  /\ i' = 1
  /\ filledCount' = 0
  /\ errorCount' = 0
  /\ UNCHANGED <<renderState, pdf, data, mapping, placed, warnings, written>>

\* one iteration of the loop over the text values
FillTextStep ==
  /\ pc = "fill_text"
  /\ i <= Len(entries)
  /\ LET dataPath == entries[i].key
         value == entries[i].value
     IN IF ~ToBoolean(value) \/ dataPath \notin DOMAIN mapping.textFields
        THEN UNCHANGED <<placed, filledCount, errorCount, warnings>>
        ELSE LET fieldId == mapping.textFields[dataPath]
             IN IF HasTextField(pdf.form, fieldId)
                   /\ AcceptsText(pdf.form, fieldId, ToChars(value))
                THEN /\ placed' = Append(placed, [op |-> "setText", field |-> dataPath,
                                                  id |-> fieldId, text |-> ToChars(value)])
                     /\ filledCount' = filledCount + 1
                     /\ UNCHANGED <<errorCount, warnings>>
                ELSE /\ errorCount' = errorCount + 1
                     /\ warnings' = Append(warnings, [field |-> dataPath, what |-> "native"])
                     /\ UNCHANGED <<placed, filledCount>>
  /\ i' = i + 1
  /\ UNCHANGED <<renderState, pc, pdf, data, mapping, entries, written>>

\* the text loop ends; the checkbox values are computed and their loop starts
FillTextDone ==
  /\ pc = "fill_text"
  /\ i > Len(entries)
  /\ pc' = "fill_check"
  /\ entries' = getCheckboxValues(data)
  /\ i' = 1
  /\ UNCHANGED <<renderState, pdf, data, mapping, filledCount, errorCount, placed,
                 warnings, written>>

\* one iteration of the loop over the checkbox values: check() on a check box,
\* select(checkedValue) on any other field
FillCheckStep ==
  /\ pc = "fill_check"
  /\ i <= Len(entries)
  /\ LET checkboxPath == entries[i].key
         isChecked == entries[i].value
     IN IF ~ToBoolean(isChecked) \/ checkboxPath \notin DOMAIN mapping.checkboxes
        THEN UNCHANGED <<placed, filledCount, errorCount, warnings>>
        ELSE LET m == mapping.checkboxes[checkboxPath]
                 found == m.fieldId \in DOMAIN pdf.form
                 kind == pdf.form[m.fieldId].kind
             IN IF found /\ kind = "checkbox"
                THEN /\ placed' = Append(placed, [op |-> "check", field |-> checkboxPath,
                                                  id |-> m.fieldId])
                     /\ filledCount' = filledCount + 1
                     /\ UNCHANGED <<errorCount, warnings>>
                ELSE IF found /\ kind = "radio"
                        /\ m.checkedValue \in pdf.form[m.fieldId].choices
                THEN /\ placed' = Append(placed, [op |-> "select", field |-> checkboxPath,
                                                  id |-> m.fieldId,
                                                  choice |-> m.checkedValue])
                     /\ filledCount' = filledCount + 1
                     /\ UNCHANGED <<errorCount, warnings>>
                ELSE /\ errorCount' = errorCount + 1
                     /\ warnings' = Append(warnings, [field |-> checkboxPath,
                                                      what |-> "native"])
                     /\ UNCHANGED <<placed, filledCount>>
  /\ i' = i + 1
  /\ UNCHANGED <<renderState, pc, pdf, data, mapping, entries, written>>

FillCheckDone ==
  /\ pc = "fill_check"
  /\ i > Len(entries)
  /\ pc' = "fill_save"
  /\ UNCHANGED <<renderState, pdf, data, mapping, entries, i, filledCount, errorCount,
                 placed, warnings, written>>

\* pdfDoc.save() and fs.writeFileSync succeed; fillForm resolves
FillSaveOk ==
  /\ pc = "fill_save"
  /\ written' = TRUE
  /\ pc' = "fill_resolved"
  /\ UNCHANGED <<renderState, pdf, data, mapping, entries, i, filledCount, errorCount,
                 placed, warnings>>

\* pdfDoc.save() or fs.writeFileSync throws; fillForm rejects
FillSaveFail ==
  /\ pc = "fill_save"
  /\ pc' = "fill_rejected"
  /\ UNCHANGED <<renderState, pdf, data, mapping, entries, i, filledCount, errorCount,
                 placed, warnings, written>>

FillNext ==
  \/ FillLoadFail
  \/ FillLoadOk
  \/ FillTextStep
  \/ FillTextDone
  \/ FillCheckStep
  \/ FillCheckDone
  \/ FillSaveOk
  \/ FillSaveFail

Next ==
  \/ LoadFail
  \/ LoadOk
  \/ NativeStep
  \/ NativeReturn
  \/ CoordStep
  \/ CoordReturn
  \/ SaveOk
  \/ SaveFail

Spec == Init /\ [][Next]_vars

\* either program of the repository: render or fillForm
SpecAll == (Init \/ FillInit) /\ [][Next \/ FillNext]_vars

(***************************************************************************)
(* Properties                                                              *)
(***************************************************************************)
FieldIds == {annotation[k].id : k \in 1..Len(annotation)}

FieldOf(id) == annotation[CHOOSE k \in 1..Len(annotation) : annotation[k].id = id]

\* the operations performed on the document for the field id
OpsOf(id) == {k \in 1..Len(placed) : placed[k].field = id}

\* the fields whose native operation threw
NativeFailures == {warnings[k].field : k \in {j \in 1..Len(warnings) : warnings[j].what = "native"}}

\* every field of the annotation has gone through the loop body of each pass that
\* is responsible for it
AllProcessed ==
  \A id \in FieldIds :
    IF useNative
    THEN /\ <<"native", id>> \in visited
         /\ (FieldOf(id).nativeFieldId = "" /\ result # Undef /\ result.fallbackCount > 0)
              => <<"coord", id>> \in visited
    ELSE <<"coord", id>> \in visited

\* C1: in every render at most one placement operation is performed for each field
\* over the native pass and the coordinate pass together, and a field whose native
\* placement failed is neither placed nor handed to the coordinate pass.
C1_PlacedAtMostOnce ==
  /\ \A id \in FieldIds : Cardinality(OpsOf(id)) <= 1
  /\ \A id \in FieldIds :
       ~(<<"native", id>> \in visited /\ FieldOf(id).nativeFieldId # ""
         /\ <<"coord", id>> \in visited /\ useNative)
  /\ \A id \in NativeFailures : OpsOf(id) = {} /\ <<"coord", id>> \notin visited

\* a native render that resolved after one field failed natively and another was
\* drawn by the coordinate fallback
C1_Witness ==
  /\ pc = "resolved"
  /\ useNative
  /\ NativeFailures # {}
  /\ \E k \in 1..Len(placed) : placed[k].op = "drawText"

\* C2 (as claimed): when render resolves after recoverable per-field failures, its
\* result carries errorCount, the number of those failures, and a failed field adds
\* nothing to filledCount.
C2_ErrorCountReported ==
  (pc = "resolved" /\ warnings # << >>) =>
    /\ "errorCount" \in DOMAIN result
    /\ result.errorCount = Len(warnings)
    /\ \A k \in 1..Len(warnings) : OpsOf(warnings[k].field) = {}

AbsentBeforeEnd(value, keys) ==
  \E n \in 1..(Len(keys) - 1) : IsNullish(Chain(value, SubSeq(keys, 1, n)))

\* some intermediate segment of pathStr is absent from obj: for a wildcard path, a
\* segment leading to the array, or a segment before the last one in an element
AbsentIntermediate(obj, pathStr) ==
  IF HasWildcard(pathStr)
  THEN LET arrayKeys == PathKeys(ArrayPath(pathStr))
           restKeys == PathKeys(RestPath(pathStr))
           array == Chain(obj, arrayKeys)
       IN \/ \E n \in 1..Len(arrayKeys) : IsNullish(Chain(obj, SubSeq(arrayKeys, 1, n)))
          \/ /\ array.t = "arr"
             /\ \E k \in 1..Len(array.a) : AbsentBeforeEnd(array.a[k], restKeys)
  ELSE AbsentBeforeEnd(obj, PathKeys(pathStr))

\* the fields whose loop body has run in some pass
VisitedIds == {v[2] : v \in visited}

\* C4 (as claimed): for every field a pass has resolved, if an intermediate segment
\* of its binding path is absent from the data document, getNestedValue returns
\* exactly the supplied default (null when none is supplied).
C4_AbsentSegmentGivesDefault ==
  \A id \in VisitedIds :
    LET b == FieldOf(id).binding
    IN AbsentIntermediate(data, b.path) =>
         getNestedValue(data, b.path, b.fallback) = DefaultNull(b.fallback)

\* C5 (as claimed): a non-checkbox field whose binding path resolves to null or
\* undefined and whose binding has no fallback is never placed, whatever transform
\* its binding declares.
C5_AbsentValueSkipped ==
  \A id \in FieldIds :
    LET f == FieldOf(id)
    IN (/\ f.type # "checkbox"
        /\ f.binding.fallback = Undef
        /\ IsNullish(getNestedValue(data, f.binding.path, Undef)))
       => OpsOf(id) = {}

\* C6: the filledCount render returns is the number of placement operations
\* performed on the document over both passes.
C6_FilledCountIsPlacements ==
  pc \in {"save", "resolved"} => result.filledCount = Len(placed)

\* a native render that resolved having placed a field natively and another by
\* coordinates
C6_Witness ==
  /\ pc = "resolved"
  /\ useNative
  /\ \E k \in 1..Len(placed) : placed[k].op \in {"setText", "check"}
  /\ \E k \in 1..Len(placed) : placed[k].op = "drawText"

\* the fields lacking nativeFieldId that a native render sent through the
\* coordinate pass
FellBack == {id \in FieldIds : useNative /\ <<"coord", id>> \in visited}

\* C7 (as claimed): the result of a render that placed something carries
\* fallbackCount, the number of fields that fell back from native to coordinate
\* placement, 0 when no native placement was attempted.
C7_FallbackCountReported ==
  (pc = "resolved" /\ placed # << >>) =>
    /\ "fallbackCount" \in DOMAIN result
    /\ result.fallbackCount = Cardinality(FellBack)

\* once render has reached the save, a step performs no operation on the document
\* and enters no pass
NothingPlacedOnceSaving ==
  pc \in {"save", "resolved", "rejected"} =>
    (placed' = placed /\ pc' \notin {"native", "coord"})

\* C8: nothing is placed before the load; a failed load rejects render with nothing
\* placed and nothing written; the output is written only by a render that went
\* through both passes; nothing is placed once render has reached the save.
C8_WriteAfterLoadAndPasses ==
  /\ [](/\ pc = "start" => placed = << >> /\ ~written
        /\ pdf = PdfCorrupt => pc \in {"start", "rejected"} /\ placed = << >> /\ ~written
        /\ written => pc = "resolved" /\ pdf # PdfCorrupt /\ AllProcessed)
  /\ [][NothingPlacedOnceSaving]_vars

\* a render rejected by a load that failed
C8_Witness == pc = "rejected" /\ pdf = PdfCorrupt /\ annotation # << >>

\* C9: no step of a render changes the data document or the annotation.
C9_InputsUnchanged == [][data' = data /\ annotation' = annotation]_vars

\* a native render that resolved after the coordinate pass ran over a filtered copy
\* of the field list, with a wildcard path resolved and summed
C9_Witness ==
  /\ pc = "resolved"
  /\ useNative
  /\ fields # annotation
  /\ fields # << >>
  /\ \E id \in FieldIds : HasWildcard(FieldOf(id).binding.path) /\ OpsOf(id) # {}

CheckboxFields == {id \in FieldIds : FieldOf(id).type = "checkbox"}

\* the operations that address an interactive field of the document by its id
NativeOps == {k \in 1..Len(placed) : placed[k].op \in {"setText", "check", "select"}}

\* the keys getCheckboxValues gives the value true
CheckedPaths ==
  LET values == getCheckboxValues(data)
  IN {values[k].key : k \in {j \in 1..Len(values) : values[j].value = Bool(TRUE)}}

NativeDeclared == {id \in FieldIds : FieldOf(id).nativeFieldId # ""}

\* C11 (as claimed): once the document has loaded, native placement is attempted
\* exactly when the caller's preferNativeFields is not false and some field
\* declares nativeFieldId; when attempted, native operations go only to fields
\* declaring nativeFieldId and every other operation is a coordinate drawText;
\* otherwise every operation, on any field, is a coordinate drawText.
C11_NativeIffPreferred ==
  pc \in {"native", "coord", "save", "resolved"} =>
    /\ useNative <=>
         (options.preferNativeFields # Bool(FALSE) /\ HasNativeFields(annotation))
    /\ useNative =>
         \A k \in 1..Len(placed) :
           IF placed[k].field \in NativeDeclared
           THEN placed[k].op \in {"setText", "check"}
           ELSE placed[k].op = "drawText"
    /\ ~useNative =>
         /\ \A k \in 1..Len(placed) : placed[k].op = "drawText"
         /\ pc \in {"save", "resolved"} => \A id \in FieldIds : <<"coord", id>> \in visited

\* a binding path of the form arr[*].k
IsArrayOfKey(pathStr) ==
  /\ Len(pathStr) = 3
  /\ pathStr[2] = Wildcard
  /\ pathStr[1] # Wildcard
  /\ pathStr[3] # Wildcard

\* the number an entry stands for: a number itself, the number a string of digits
\* denotes, 0 for anything else
NumericValue(v) ==
  IF v.t = "num" THEN v.n
  ELSE IF v.t = "str" /\ v.s # << >> /\ \A k \in 1..Len(v.s) : IsDigit(v.s[k])
  THEN DigitsToNat(v.s)
  ELSE 0

\* the numeric values of key over the first n elements, added up
RECURSIVE TotalOf(_, _, _)
TotalOf(elements, key, n) ==
  IF n = 0 THEN 0
  ELSE TotalOf(elements, key, n - 1) + NumericValue(Prop(elements[n], key))

SsnInputs ==
  { Str(<<"1", "2", "3", "4", "5", "6", "7", "8", "9">>),
    Str(<<"1", "2", "3", "-", "4", "5", "-", "6", "7", "8", "9">>),
    Str(<<" ", "1", "2", "3", " ", "4", "5", " ", "6", "7", "8", "9", "x">>),
    Str(<<"1", "2", "-", "3", "4", "5", "6", "7", "8", "9">>),
    Str(<<"1", "2", "3", "-", "4", "5">>),
    Str(<<"1", "2", "3", "4", "5", "6", "7", "8", "9", "0">>),
    Str(<<"0">>),
    Str(<<"n", "/", "a">>),
    Str(<<"-">>),
    Num(123456789),
    Num(12345),
    Num(0),
    Bool(TRUE) }

\* a field of type ssn
SsnField == CHOOSE f \in FieldPool : f.type = "ssn"

\* s has the shape DDD-DD-DDDD
IsDashedSsn(s) ==
  /\ Len(s) = 11
  /\ \A k \in 1..11 : IF k \in {4, 7} THEN s[k] = "-" ELSE IsDigit(s[k])

\* the fields of type ssn
SsnFields == {id \in FieldIds : FieldOf(id).type = "ssn"}

\* C13: formatValue with type ssn depends only on the digits of a non-empty input
\* and is idempotent, for the value of the ssn field of a render that resolved and
\* for whatever else the data could have held for it: nine digits give
\* DDD-DD-DDDD holding those digits in order, any other count gives the bare digit
\* string, and formatting the result again gives the same string; a native setText on an ssn field sets the formatted
\* value without its dashes (the bare digits), so that a nine-digit ssn fits a
\* text field limited to nine characters; a coordinate drawText draws the
\* formatted value itself.
C13_SsnFormat ==
  /\ \A v \in (IF pc = "resolved" /\ SsnFields # {} THEN SsnInputs ELSE {}) :
       LET digits == StripNonDigits(ToChars(v))
           out == formatValue(v, SsnField)
       IN /\ out.t = "str"
          /\ IF Len(digits) = 9 THEN IsDashedSsn(out.s) ELSE out.s = digits
          /\ StripNonDigits(out.s) = digits
          /\ out = formatValue(Str(digits), SsnField)
          /\ formatValue(out, SsnField) = out
  /\ \A id \in SsnFields :
       LET value == TransformedValue(FieldOf(id), data)
           out == FormattedValue(FieldOf(id), data)
       IN \A k \in OpsOf(id) :
            /\ out.t = "str"
            /\ formatValue(out, FieldOf(id)) = out
            /\ placed[k].op \in {"setText", "drawText"}
            /\ placed[k].op = "setText" =>
                 /\ placed[k].text = StripNonDigits(ToChars(value))
                 /\ \A j \in 1..Len(placed[k].text) : placed[k].text[j] # "-"
            /\ placed[k].op = "drawText" => placed[k].text = out.s
  /\ \A id \in SsnFields :
       LET f == FieldOf(id)
       IN (/\ pc \in {"save", "resolved"}
           /\ useNative
           /\ HasTextField(pdf.form, f.nativeFieldId)
           /\ evaluateCondition(f.binding.condition, data)
           /\ IsDashedSsn(FormattedValue(f, data).s))
          => \E k \in OpsOf(id) : placed[k].op = "setText" /\ Len(placed[k].text) = 9

\* a render that resolved having set natively, as nine bare digits, an ssn the
\* data holds with dashes
C13_Witness ==
  /\ pc = "resolved"
  /\ \E id \in SsnFields :
       /\ IsDashedSsn(FormattedValue(FieldOf(id), data).s)
       /\ \E k \in OpsOf(id) : placed[k].op = "setText" /\ Len(placed[k].text) = 9

\* the fields whose binding declares a condition the regular expression matches
ConditionalFields ==
  {id \in FieldIds : "pathStr" \in DOMAIN FieldOf(id).binding.condition}

\* the path operand of the condition names a property the data does not hold (an
\* explicit null is held)
PathAbsent(condition) == Chain(data, PathKeys(condition.pathStr)) = Undef

\* C14 (as claimed): for every field a pass has gone through whose condition names
\* a path absent from the data document, the operand compares as undefined: an
\* equality with any literal, null included, is false and the field is left alone;
\* an inequality with any literal is true.
C14_AbsentPathIsUndefined ==
  \A id \in ConditionalFields \cap VisitedIds :
    LET c == FieldOf(id).binding.condition
    IN PathAbsent(c) =>
         /\ c.operator \in {"===", "=="} =>
              ~evaluateCondition(c, data) /\ OpsOf(id) = {}
         /\ c.operator \in {"!==", "!="} => evaluateCondition(c, data)

\* fillWithNativeFields as a whole: the loop over the field list
RECURSIVE NativePass(_, _, _)
NativePass(fieldList, doc, form) ==
  IF fieldList = << >> THEN Skipped
  ELSE LET first == NativeField(Head(fieldList), doc, form)
           rest == NativePass(Tail(fieldList), doc, form)
       IN Outcome(first.ops \o rest.ops, first.filled + rest.filled,
                  first.fallback + rest.fallback, first.warned \o rest.warned)

\* fillWithCoordinates as a whole: the loop over the field list
RECURSIVE CoordPass(_, _, _)
CoordPass(fieldList, doc, numPages) ==
  IF fieldList = << >> THEN Skipped
  ELSE LET first == CoordField(Head(fieldList), doc, numPages)
           rest == CoordPass(Tail(fieldList), doc, numPages)
       IN Outcome(first.ops \o rest.ops, first.filled + rest.filled, 0,
                  first.warned \o rest.warned)

\* the set of the placements (operation, target, value) of a sequence of them
PlacementSet(ops) == {ops[k] : k \in 1..Len(ops)}

\* what render returns and the placements it makes on the document, from the load
\* to the save
RenderOutcome(fieldList, doc, target, opts) ==
  IF UseNative(opts, fieldList)
  THEN LET native == NativePass(fieldList, doc, target.form)
           coord == IF native.fallback > 0
                    THEN CoordPass(NonNativeFields(fieldList), doc, target.pages)
                    ELSE Skipped
       IN [result |-> [filledCount |-> native.filled + coord.filled,
                       fallbackCount |-> native.fallback],
           placements |-> PlacementSet(native.ops \o coord.ops)]
  ELSE LET coord == CoordPass(fieldList, doc, target.pages)
       IN [result |-> [filledCount |-> coord.filled],
           placements |-> PlacementSet(coord.ops)]

\* the field lists holding the fields of fieldList in any order
Reorderings(fieldList) ==
  LET n == Len(fieldList)
      shuffles == {p \in [1..n -> 1..n] : \A a, b \in 1..n : a # b => p[a] # p[b]}
  IN {[k \in 1..n |-> fieldList[p[k]]] : p \in shuffles}

\* C15: when render resolves, the counters it returns and the
\* set of placements it made are those of a render of the same fields in any other
\* order, in native mode with fallback as in coordinate-only mode.
C15_FieldOrderIrrelevant ==
  pc = "resolved" =>
    LET outcome == RenderOutcome(annotation, data, pdf, options)
    IN /\ result = outcome.result
       /\ PlacementSet(placed) = outcome.placements
       /\ \A reordered \in Reorderings(annotation) :
            RenderOutcome(reordered, data, pdf, options) = outcome

\* a native render that resolved having drawn its first field, which declares no
\* nativeFieldId, by the coordinate fallback and set its second field natively
C15_Witness ==
  /\ pc = "resolved"
  /\ useNative
  /\ Len(annotation) = 2
  /\ annotation[1].nativeFieldId = ""
  /\ annotation[2].nativeFieldId # ""
  /\ \E k \in OpsOf(annotation[1].id) : placed[k].op = "drawText"
  /\ \E k \in OpsOf(annotation[2].id) : placed[k].op = "setText"
  /\ result.fallbackCount = 1
  /\ result.filledCount = 2
====
